---- MODULE Spec2Model ----
(***************************************************************************)
(* Model of create_db.py: a command-line program that connects to a        *)
(* PostgreSQL server, creates a database and six tables, optionally loads  *)
(* CSV files into them and prints one report.                              *)
(*                                                                         *)
(* The program is sequential.  Every call main() makes is one action; the  *)
(* action holds the whole callee and the lines of main() that follow it up *)
(* to the next call.  The server, the files and the driver are the         *)
(* environment: whether a statement fails is chosen with \E, except where  *)
(* the engine's rules decide it (a missing table, a violated key, an       *)
(* aborted transaction).                                                   *)
(***************************************************************************)
EXTENDS Integers, Sequences, FiniteSets, TLC

VARIABLES
    pc,            \* position in main(): the next call to make, or "exit"
    argv,          \* the command line: each option absent <<>> or given <<s>>
    db_name,       \* args.db_name
    insert_data,   \* args.insert_data, a Python value
    databases,     \* names in pg_database
    tables,        \* committed tables of the target database's public schema
    pending,       \* tables created in the connection's open transaction
    txn,           \* transaction status of the connection: idle, open, aborted
    rows,          \* committed rows of each table
    csv,           \* sql_input_files/<table>.csv, per table
    idx,           \* position of the loading loop in db_tables
    check_result,  \* what check_if_exists_tables returned, a Python value
    ct,            \* what the last create_tables call did
    report,        \* what first_db_request returned
    trace,         \* the calls made so far, each with its outcome
    log,           \* the errors printed by print(error)
    raised,        \* the exception that left main(), if any
    exit_code,     \* <<>> while running, <<status>> once the process has ended
    fresh          \* whether the target database was absent when the run began

vars == <<pc, argv, db_name, insert_data, databases, tables, pending, txn, rows,
          csv, idx, check_result, ct, report, trace, log, raised, exit_code, fresh>>

----------------------------------------------------------------------------
(* Bounds of the model. *)

\* rows of a well-formed CSV file
MaxRows == 2
\* users, carts, products and cart_product rows of a database handed to the report
MaxUsers == 2
MaxCarts == 2
MaxProducts == 1
MaxLinks == 2

----------------------------------------------------------------------------
(* Python values.  A value carries its type, so that a str never equals a  *)
(* tuple or a bool, as in Python.                                          *)

PyNone == [py |-> "NoneType", v |-> <<>>]
PyBool(b) == [py |-> "bool", v |-> <<IF b THEN "True" ELSE "False">>]
PyStr(s) == [py |-> "str", v |-> <<s>>]
PyTuple(items) == [py |-> "tuple", v |-> items]

\* a == b for the types above
PyEq(a, b) == a.py = b.py /\ a.v = b.v

\* bool(x)
Truthy(x) ==
    CASE x.py = "bool" -> x.v = <<"True">>
      [] x.py = "str" -> x.v # <<"">>
      [] x.py = "tuple" -> x.v # <<>>
      [] OTHER -> FALSE

\* x in list
PyIn(x, list) == \E i \in 1..Len(list) : PyEq(x, list[i])

\* list == list
PyListEq(a, b) == Len(a) = Len(b) /\ \A i \in 1..Len(a) : PyEq(a[i], b[i])

----------------------------------------------------------------------------
(* Names. *)

db_tables == <<"users", "categories", "carts", "orders", "products", "cart_product">>

Expected == {db_tables[i] : i \in 1..Len(db_tables)}

\* tables of the public schema the program does not know
ExtraTables == {"audit", "zlog"}

TableNames == Expected \cup ExtraTables

TableIndex(t) == CHOOSE i \in 1..Len(db_tables) : db_tables[i] = t

\* position of a name in code-point order, the order of Python's < on str
NameRank(n) ==
    CASE n = "audit" -> 1
      [] n = "cart_product" -> 2
      [] n = "carts" -> 3
      [] n = "categories" -> 4
      [] n = "orders" -> 5
      [] n = "postgres" -> 6
      [] n = "products" -> 7
      [] n = "shop" -> 8
      [] n = "users" -> 9
      [] n = "zlog" -> 10

\* a < b on two str or on two 1-tuples of str
PyLess(a, b) == NameRank(a.v[1]) < NameRank(b.v[1])

RECURSIVE InsertSorted(_, _)
InsertSorted(x, s) ==
    IF s = <<>> THEN <<x>>
    ELSE IF PyLess(x, Head(s)) THEN <<x>> \o s
    ELSE <<Head(s)>> \o InsertSorted(x, Tail(s))

\* sorted(list)
RECURSIVE sorted(_)
sorted(list) ==
    IF list = <<>> THEN <<>>
    ELSE InsertSorted(Head(list), sorted(Tail(list)))

\* cursor.fetchall() of a one-column query: one 1-tuple per row, in name order
RECURSIVE fetchall(_)
fetchall(names) ==
    IF names = {} THEN <<>>
    ELSE LET n == CHOOSE x \in names : \A y \in names : NameRank(x) <= NameRank(y)
         IN <<PyTuple(<<n>>)>> \o fetchall(names \ {n})

----------------------------------------------------------------------------
(* The schema: one CREATE TABLE IF NOT EXISTS statement per table, with    *)
(* the keys it declares.                                                   *)

\* a variant of the statements with carts ahead of users
commands_carts_first ==
    << [table |-> "carts", pk |-> <<"cart_id">>,
        fks |-> {[col |-> "Users_user_id", parent |-> "users", pcol |-> "user_id"]}],
       [table |-> "categories", pk |-> <<"category_id">>, fks |-> {}],
       [table |-> "users", pk |-> <<"user_id">>, fks |-> {}],
       [table |-> "orders", pk |-> <<"order_id">>,
        fks |-> {[col |-> "Users_user_id", parent |-> "users", pcol |-> "user_id"],
                 [col |-> "Carts_cart_id", parent |-> "carts", pcol |-> "cart_id"]}],
       [table |-> "products", pk |-> <<"product_id">>,
        fks |-> {[col |-> "Category_category_id", parent |-> "categories",
                  pcol |-> "category_id"],
                 [col |-> "Orders_order_id", parent |-> "orders", pcol |-> "order_id"]}],
       [table |-> "cart_product", pk |-> <<>>,
        fks |-> {[col |-> "Carts_cart_id", parent |-> "carts", pcol |-> "cart_id"],
                 [col |-> "Products_product_id", parent |-> "products",
                  pcol |-> "product_id"]}] >>

commands ==
    << [table |-> "users", pk |-> <<"user_id">>, fks |-> {}],
       [table |-> "categories", pk |-> <<"category_id">>, fks |-> {}],
       [table |-> "carts", pk |-> <<"cart_id">>,
        fks |-> {[col |-> "Users_user_id", parent |-> "users", pcol |-> "user_id"]}],
       [table |-> "orders", pk |-> <<"order_id">>,
        fks |-> {[col |-> "Users_user_id", parent |-> "users", pcol |-> "user_id"],
                 [col |-> "Carts_cart_id", parent |-> "carts", pcol |-> "cart_id"]}],
       [table |-> "products", pk |-> <<"product_id">>,
        fks |-> {[col |-> "Category_category_id", parent |-> "categories",
                  pcol |-> "category_id"],
                 [col |-> "Orders_order_id", parent |-> "orders", pcol |-> "order_id"]}],
       [table |-> "cart_product", pk |-> <<>>,
        fks |-> {[col |-> "Carts_cart_id", parent |-> "carts", pcol |-> "cart_id"],
                 [col |-> "Products_product_id", parent |-> "products",
                  pcol |-> "product_id"]}] >>

\* the tables a statement's foreign keys reference
Refs(c) == {fk.parent : fk \in c.fks}

\* the declaration of a table
SchemaOf(t) == CHOOSE c \in {commands[i] : i \in 1..Len(commands)} : c.table = t

Min(a, b) == IF a <= b THEN a ELSE b

Range(s) == {s[i] : i \in 1..Len(s)}

----------------------------------------------------------------------------
(* The engine. *)

\* why the engine refuses CREATE TABLE IF NOT EXISTS c, or "none"
CreateRefusal(c, visible, tx, envfault) ==
    IF tx = "aborted" THEN "aborted_txn"
    ELSE IF envfault THEN "env"
    ELSE IF c.table \in visible THEN "none"
    ELSE IF ~(Refs(c) \subseteq visible) THEN "missing_parent"
    ELSE "none"

\* the for loop of create_tables from statement i on: the first refusal leaves it
RECURSIVE ExecuteFrom(_, _, _, _, _)
ExecuteFrom(i, visible, tx, fault, issued) ==
    IF i > Min(Len(commands), Len(db_tables))
    THEN [issued |-> issued, failed |-> 0, cause |-> "none", visible |-> visible]
    ELSE LET c == commands[i]
             why == CreateRefusal(c, visible, tx, fault = i)
         IN IF why # "none"
            THEN [issued |-> Append(issued, c.table), failed |-> i, cause |-> why,
                  visible |-> visible]
            ELSE ExecuteFrom(i + 1, visible \cup {c.table}, tx, fault,
                             Append(issued, c.table))

\* a variant of create_tables that commits whatever the loop did
create_tables_commit_always(visible, tx, fault) ==
    LET r == ExecuteFrom(1, visible, tx, fault, <<>>)
    IN [start |-> visible, issued |-> r.issued, failed |-> r.failed, cause |-> r.cause,
        visible |-> r.visible, committed |-> TRUE, logged |-> r.failed # 0,
        raises |-> FALSE]

\* create_tables: the loop, then the commit; a refusal is printed and swallowed
create_tables(visible, tx, fault) ==
    LET r == ExecuteFrom(1, visible, tx, fault, <<>>)
    IN [start |-> visible, issued |-> r.issued, failed |-> r.failed, cause |-> r.cause,
        visible |-> r.visible, committed |-> r.failed = 0, logged |-> r.failed # 0,
        raises |-> FALSE]

\* check_if_exists_tables: the sorted expected names against the sorted rows fetched
check_if_exists_tables(visible) ==
    PyBool(PyListEq(sorted([i \in 1..Len(db_tables) |-> PyStr(db_tables[i])]),
                    sorted(fetchall(visible))))

\* check_if_exists_database: (db_name,) in list_databases
check_if_exists_database(dbs, name) == PyIn(PyTuple(<<name>>), fetchall(dbs))

\* the values of column col in a sequence of rows
Column(rs, col) == {rs[i][col] : i \in 1..Len(rs)}

\* whether COPY accepts the lines of a file into table t
CopyAccepts(t, lines, db, visible, tx) ==
    LET s == SchemaOf(t)
        new == [i \in 1..Len(lines) |-> lines[i].row]
        all == db[t] \o new
    IN /\ tx # "aborted"
       /\ t \in visible
       /\ \A i \in 1..Len(lines) : lines[i].ok
       /\ s.pk # <<>> =>
            \A i, j \in 1..Len(all) : all[i][s.pk[1]] = all[j][s.pk[1]] => i = j
       /\ \A fk \in s.fks : \A i \in 1..Len(new) :
            new[i][fk.col] \in Column(db[fk.parent], fk.pcol)

\* the rows of table t after a COPY that was accepted
CopyResult(t, lines, db) ==
    [db EXCEPT ![t] = db[t] \o [i \in 1..Len(lines) |-> lines[i].row]]

\* the fixed query of first_db_request: per users row, the cart_product rows
\* whose carts_cart_id equals the user's user_id
first_db_request(db) ==
    [i \in 1..Len(db["users"]) |->
        [first_name |-> db["users"][i].first_name,
         last_name |-> db["users"][i].last_name,
         count |-> Cardinality({j \in 1..Len(db["cart_product"]) :
                       db["cart_product"][j].Carts_cart_id = db["users"][i].user_id})]]

----------------------------------------------------------------------------
(* Files and database contents the runs start from. *)

FirstName(i) == IF i % 2 = 1 THEN "Ann" ELSE "Bob"

\* the i-th row of a file whose rows all reference the first row of each parent
WellFormedRow(t, i) ==
    CASE t = "users" -> [user_id |-> i, first_name |-> FirstName(i), last_name |-> "Lee"]
      [] t = "categories" -> [category_id |-> i]
      [] t = "carts" -> [cart_id |-> i, Users_user_id |-> 1]
      [] t = "orders" -> [order_id |-> i, Users_user_id |-> 1, Carts_cart_id |-> 1]
      [] t = "products" -> [product_id |-> i, Category_category_id |-> 1,
                            Orders_order_id |-> 1]
      [] t = "cart_product" -> [Carts_cart_id |-> 1, Products_product_id |-> i]

Missing == [exists |-> FALSE, lines |-> <<>>]

WellFormed(t, n) ==
    [exists |-> TRUE, lines |-> [i \in 1..n |-> [ok |-> TRUE, row |-> WellFormedRow(t, i)]]]

\* a file with a line COPY cannot parse
Malformed(t) ==
    [exists |-> TRUE, lines |-> <<[ok |-> FALSE, row |-> WellFormedRow(t, 1)]>>]

\* a file the table's constraints reject: a parent that does not exist, or, for a
\* table without foreign keys, the same primary key twice
Violating(t) ==
    LET s == SchemaOf(t)
        r == WellFormedRow(t, 1)
    IN IF s.fks = {}
       THEN [exists |-> TRUE, lines |-> <<[ok |-> TRUE, row |-> r], [ok |-> TRUE, row |-> r]>>]
       ELSE LET fk == CHOOSE x \in s.fks : TRUE
            IN [exists |-> TRUE,
                lines |-> <<[ok |-> TRUE, row |-> [r EXCEPT ![fk.col] = 9999]]>>]

CsvKinds == {"missing", "malformed", "violating", "wellformed"}

CsvFile(t, kind, n) ==
    CASE kind = "missing" -> Missing
      [] kind = "malformed" -> Malformed(t)
      [] kind = "violating" -> Violating(t)
      [] kind = "wellformed" -> WellFormed(t, n)

\* the same kind of file for every table
UniformCsv == {[t \in Expected |-> WellFormed(t, n)] : n \in 1..MaxRows}
              \cup {[t \in Expected |-> Missing]}

EmptyRows == [t \in Expected |-> <<>>]

\* one row in every table
Populated == [t \in Expected |-> <<WellFormedRow(t, 1)>>]

\* a table exists only together with the tables its foreign keys reference
FKClosed(S) == \A t \in S : Refs(SchemaOf(t)) \subseteq S

InitialTableSets ==
    {S \cup E : S \in {X \in SUBSET Expected : FKClosed(X)}, E \in SUBSET ExtraTables}

RECURSIVE Ascending(_)
Ascending(S) ==
    IF S = {} THEN <<>>
    ELSE LET m == CHOOSE x \in S : \A y \in S : x <= y
         IN <<m>> \o Ascending(S \ {m})

\* a database that satisfies every foreign key: users U, carts C owned as own says,
\* cart_product rows links, and the products, order and category those rows need
BuildDb(U, C, own, links) ==
    LET us == Ascending(U)
        cs == Ascending(C)
        ps == Ascending({links[i][2] : i \in 1..Len(links)})
        c0 == IF links = <<>> THEN 0 ELSE links[1][1]
    IN [t \in Expected |->
         CASE t = "users" ->
                [i \in 1..Len(us) |-> [user_id |-> us[i], first_name |-> FirstName(us[i]),
                                       last_name |-> "Lee"]]
           [] t = "carts" ->
                [i \in 1..Len(cs) |-> [cart_id |-> cs[i], Users_user_id |-> own[cs[i]]]]
           [] t = "cart_product" ->
                [i \in 1..Len(links) |-> [Carts_cart_id |-> links[i][1],
                                          Products_product_id |-> links[i][2]]]
           [] t = "categories" ->
                IF links = <<>> THEN <<>> ELSE <<[category_id |-> 1]>>
           [] t = "orders" ->
                IF links = <<>> THEN <<>>
                ELSE <<[order_id |-> 1, Users_user_id |-> own[c0], Carts_cart_id |-> c0]>>
           [] t = "products" ->
                [i \in 1..Len(ps) |-> [product_id |-> ps[i], Category_category_id |-> 1,
                                       Orders_order_id |-> 1]]]

----------------------------------------------------------------------------
(* The process. *)

NoError == [exc |-> "none", at |-> "none"]

NoCreate == [ran |-> FALSE, start |-> {}, issued |-> <<>>, failed |-> 0, cause |-> "none",
             committed |-> FALSE, logged |-> FALSE, raises |-> FALSE]

NoReport == [ran |-> FALSE, data |-> <<>>]

Call(op, arg, ok) == [op |-> op, arg |-> arg, ok |-> ok]

\* the exit status of the interpreter: SystemExit() carries the code None, which
\* is status 0; parser.error() exits with 2; an exception nobody catches gives 1
ExitStatus(exc) ==
    CASE exc = "none" -> 0
      [] exc = "SystemExit" -> 0
      [] exc = "ArgumentError" -> 2
      [] OTHER -> 1

\* get_parser().parse_args(): --db_name and --db_password are required;
\* --insert_data is converted with str and must then be one of choices
parse_args(av) ==
    LET choices == <<PyBool(TRUE), PyBool(FALSE)>>
        given == av.insert_data # <<>>
        bad_choice == given /\ ~PyIn(PyStr(av.insert_data[1]), choices)
        missing == av.db_name = <<>> \/ av.db_password = <<>>
    IN [error |-> bad_choice \/ missing,
        db_name |-> IF av.db_name = <<>> THEN "" ELSE av.db_name[1],
        insert_data |-> IF given THEN PyStr(av.insert_data[1]) ELSE PyBool(FALSE)]

\* the lines of main() after the tables are dealt with: load if insert_data
AfterTables == IF Truthy(insert_data) THEN "insert" ELSE "report"

\* an exception leaves main(): the process ends
Leave(exc, op) ==
    /\ raised' = [exc |-> exc, at |-> op]
    /\ pc' = "exit"
    /\ exit_code' = <<ExitStatus(exc)>>

\* except: print(error); raise SystemExit
Abort(op) ==
    /\ log' = Append(log, op)
    /\ Leave("SystemExit", op)

\* a variant of the connection factory that prints the error and returns None
create_connection_returns_none(ok) == [raises |-> FALSE, logged |-> ~ok]

\* create_connection_to_POSTGRES: the connection, or print(error) and SystemExit
create_connection_to_POSTGRES(ok) == [raises |-> ~ok, logged |-> ~ok]

ParseArgs ==
    /\ pc = "parse"
    /\ LET r == parse_args(argv)
       IN /\ trace' = Append(trace, Call("parse_args", "", ~r.error))
          /\ IF r.error
             THEN /\ Leave("ArgumentError", "parse_args")
                  /\ UNCHANGED <<db_name, insert_data>>
             ELSE /\ db_name' = r.db_name
                  /\ insert_data' = r.insert_data
                  /\ pc' = "connect_admin"
                  /\ UNCHANGED <<raised, exit_code>>
    /\ UNCHANGED <<argv, databases, tables, pending, txn, rows, csv, idx, check_result,
                   ct, report, log, fresh>>

\* main(): the connection to the server
ConnectAdmin ==
    /\ pc = "connect_admin"
    /\ \E ok \in BOOLEAN :
         LET r == create_connection_to_POSTGRES(ok)
         IN /\ trace' = Append(trace, Call("create_connection_to_POSTGRES", "", ok))
            /\ IF r.raises
               THEN Abort("create_connection_to_POSTGRES")
               ELSE /\ pc' = "check_database"
                    /\ log' = IF r.logged
                              THEN Append(log, "create_connection_to_POSTGRES") ELSE log
                    /\ UNCHANGED <<raised, exit_code>>
    /\ UNCHANGED <<argv, db_name, insert_data, databases, tables, pending, txn, rows, csv,
                   idx, check_result, ct, report, fresh>>

\* main(): the database check and the branch on it
CheckDatabase ==
    /\ pc = "check_database"
    /\ \E ok \in BOOLEAN :
         /\ trace' = Append(trace, Call("check_if_exists_database", db_name, ok))
         /\ IF ok
            THEN /\ pc' = IF ~check_if_exists_database(databases, db_name)
                          THEN "create_database" ELSE "connect_db"
                 /\ UNCHANGED <<log, raised, exit_code>>
            ELSE Abort("check_if_exists_database")
    /\ UNCHANGED <<argv, db_name, insert_data, databases, tables, pending, txn, rows, csv,
                   idx, check_result, ct, report, fresh>>

\* create_database: CREATE DATABASE in autocommit mode
CreateDatabase ==
    /\ pc = "create_database"
    /\ \E envok \in BOOLEAN :
         LET ok == envok /\ db_name \notin databases
         IN /\ trace' = Append(trace, Call("create_database", db_name, ok))
            /\ IF ok
               THEN /\ databases' = databases \cup {db_name}
                    /\ pc' = "connect_db"
                    /\ UNCHANGED <<log, raised, exit_code>>
               ELSE /\ Abort("create_database")
                    /\ UNCHANGED databases
    /\ UNCHANGED <<argv, db_name, insert_data, tables, pending, txn, rows, csv, idx,
                   check_result, ct, report, fresh>>

\* main(): the connection to the target database
ConnectDb ==
    /\ pc = "connect_db"
    /\ \E envok \in BOOLEAN :
         LET ok == envok /\ db_name \in databases
             r == create_connection_to_POSTGRES(ok)
         IN /\ trace' = Append(trace, Call("create_connection_to_POSTGRES", db_name, ok))
            /\ IF r.raises
               THEN /\ Abort("create_connection_to_POSTGRES")
                    /\ UNCHANGED txn
               ELSE /\ pc' = "check_tables"
                    /\ txn' = "idle"
                    /\ log' = IF r.logged
                              THEN Append(log, "create_connection_to_POSTGRES") ELSE log
                    /\ UNCHANGED <<raised, exit_code>>
    /\ UNCHANGED <<argv, db_name, insert_data, databases, tables, pending, rows, csv, idx,
                   check_result, ct, report, fresh>>

\* main(): the table check and the branch on "is not None"
CheckTables ==
    /\ pc = "check_tables"
    /\ \E ok \in BOOLEAN :
         /\ trace' = Append(trace, Call("check_if_exists_tables", "", ok))
         /\ IF ok
            THEN /\ check_result' = check_if_exists_tables(tables \cup pending)
                 /\ txn' = "open"
                 /\ pc' = IF check_result'.py # "NoneType" THEN AfterTables
                          ELSE "create_tables"
                 /\ UNCHANGED <<log, raised, exit_code>>
            ELSE /\ Abort("check_if_exists_tables")
                 /\ UNCHANGED <<check_result, txn>>
    /\ UNCHANGED <<argv, db_name, insert_data, databases, tables, pending, rows, csv, idx,
                   ct, report, fresh>>

\* create_tables, and the lines of main() after it.  A commit makes the created
\* tables durable; a commit sent in an aborted transaction rolls it back; without
\* a commit the tables stay pending in a transaction that is aborted.
CreateTables ==
    /\ pc = "create_tables"
    /\ \E fault \in 0..Len(commands) :
         LET r == create_tables(tables \cup pending, txn, fault)
         IN /\ ct' = [ran |-> TRUE, start |-> r.start, issued |-> r.issued,
                      failed |-> r.failed, cause |-> r.cause, committed |-> r.committed,
                      logged |-> r.logged, raises |-> r.raises]
            /\ trace' = Append(trace, Call("create_tables", "", r.failed = 0))
            /\ log' = IF r.logged THEN Append(log, "create_tables") ELSE log
            /\ IF r.committed /\ r.failed = 0
               THEN /\ tables' = r.visible
                    /\ pending' = {}
                    /\ txn' = "idle"
               ELSE IF r.committed
               THEN /\ UNCHANGED tables
                    /\ pending' = {}
                    /\ txn' = "idle"
               ELSE /\ UNCHANGED tables
                    /\ pending' = r.visible \ tables
                    /\ txn' = "aborted"
            /\ IF r.raises
               THEN Leave("Exception", "create_tables")
               ELSE /\ pc' = AfterTables
                    /\ UNCHANGED <<raised, exit_code>>
    /\ UNCHANGED <<argv, db_name, insert_data, databases, rows, csv, idx, check_result,
                   report, fresh>>

\* one call of insert_data_to_db from the loop of main()
InsertData ==
    /\ pc = "insert"
    /\ LET t == db_tables[idx]
           f == csv[t]
       IN IF ~f.exists
          THEN /\ trace' = Append(trace, Call("insert_data_to_db", t, FALSE))
               /\ Leave("FileNotFoundError", "insert_data_to_db")
               /\ UNCHANGED <<tables, pending, txn, rows, idx, log>>
          ELSE LET ok == CopyAccepts(t, f.lines, rows, tables \cup pending, txn)
               IN /\ trace' = Append(trace, Call("insert_data_to_db", t, ok))
                  /\ log' = IF ok THEN log ELSE Append(log, "insert_data_to_db")
                  /\ rows' = IF ok THEN CopyResult(t, f.lines, rows) ELSE rows
                  /\ tables' = IF ok THEN tables \cup pending ELSE tables
                  /\ pending' = {}
                  /\ txn' = "idle"
                  /\ idx' = idx + 1
                  /\ pc' = IF idx = Len(db_tables) THEN "report" ELSE "insert"
                  /\ UNCHANGED <<raised, exit_code>>
    /\ UNCHANGED <<argv, db_name, insert_data, databases, csv, check_result, ct, report,
                   fresh>>

\* first_db_request, the print of its head, and the end of main()
Report ==
    /\ pc = "report"
    /\ \E envok \in BOOLEAN :
         LET ok == /\ envok
                   /\ txn # "aborted"
                   /\ {"users", "cart_product"} \subseteq (tables \cup pending)
         IN /\ trace' = Append(trace, Call("first_db_request", "", ok))
            /\ IF ok
               THEN /\ report' = [ran |-> TRUE, data |-> first_db_request(rows)]
                    /\ txn' = "open"
                    /\ pc' = "exit"
                    /\ exit_code' = <<ExitStatus("none")>>
                    /\ UNCHANGED <<log, raised>>
               ELSE /\ Abort("first_db_request")
                    /\ UNCHANGED <<report, txn>>
    /\ UNCHANGED <<argv, db_name, insert_data, databases, tables, pending, rows, csv, idx,
                   check_result, ct, fresh>>

----------------------------------------------------------------------------
(* Specifications. *)

\* what every run starts with, whatever it is given
InitCommon ==
    /\ pending = {}
    /\ idx = 1
    /\ ct = NoCreate
    /\ report = NoReport
    /\ trace = <<>>
    /\ log = <<>>
    /\ raised = NoError
    /\ exit_code = <<>>

\* the server before the run: the target database absent, or present with some
\* of the tables, empty or holding a row each
InitServer ==
    /\ databases \in {{"postgres"}, {"postgres", "shop"}}
    /\ fresh = ("shop" \notin databases)
    /\ tables \in IF "shop" \in databases THEN InitialTableSets ELSE {{}}
    /\ rows \in IF Expected \subseteq tables THEN {EmptyRows, Populated} ELSE {EmptyRows}
    /\ csv \in UniformCsv

Argvs ==
    [db_name : {<<>>, <<"shop">>},
     db_password : {<<>>, <<"secret">>},
     insert_data : {<<>>, <<"true">>, <<"True">>, <<"False">>, <<"">>}]

\* the program started from the command line
Init ==
    /\ InitCommon
    /\ InitServer
    /\ pc = "parse"
    /\ argv \in Argvs
    /\ db_name = ""
    /\ insert_data = PyNone
    /\ check_result = PyNone
    /\ txn = "none"

\* The loop over insert_data_to_db and the call of create_tables are not among
\* the steps: no command line leads to them (NeverLoads, NeverCreates).
Next ==
    \/ ParseArgs
    \/ ConnectAdmin
    \/ CheckDatabase
    \/ CreateDatabase
    \/ ConnectDb
    \/ CheckTables
    \/ Report

Spec == Init /\ [][Next]_vars

\* the command line of the functions called below main()
ArgvDirect == [db_name |-> <<"shop">>, db_password |-> <<"secret">>, insert_data |-> <<>>]

\* main() from its first call on, with insert_data either bool
InitMain ==
    /\ InitCommon
    /\ InitServer
    /\ pc = "connect_admin"
    /\ argv = ArgvDirect
    /\ db_name = "shop"
    /\ insert_data \in {PyBool(TRUE), PyBool(FALSE)}
    /\ check_result = PyNone
    /\ txn = "none"

\* main() at its call of create_tables, on a connection whose transaction the
\* table check has opened
InitCreate ==
    /\ InitCommon
    /\ InitServer
    /\ "shop" \in databases
    /\ pc = "create_tables"
    /\ argv = ArgvDirect
    /\ db_name = "shop"
    /\ insert_data \in {PyBool(TRUE), PyBool(FALSE)}
    /\ check_result = PyNone
    /\ txn = "open"

InitBody == InitMain \/ InitCreate

NextBody ==
    \/ ConnectAdmin
    \/ CheckDatabase
    \/ CreateDatabase
    \/ ConnectDb
    \/ CheckTables
    \/ CreateTables
    \/ InsertData
    \/ Report

\* main() below its option parsing, and create_tables called as main() calls it
SpecBody == InitBody /\ [][NextBody]_vars

\* the loading loop of main() on six empty tables, each file of any kind
InitLoad ==
    /\ InitCommon
    /\ databases = {"postgres", "shop"}
    /\ fresh = FALSE
    /\ tables = Expected
    /\ rows = EmptyRows
    /\ \E kind \in [Expected -> CsvKinds] : \E n \in [Expected -> 1..MaxRows] :
         /\ \A t \in Expected : kind[t] # "wellformed" => n[t] = 1
         /\ csv = [t \in Expected |-> CsvFile(t, kind[t], n[t])]
    /\ pc = "insert"
    /\ argv = ArgvDirect
    /\ db_name = "shop"
    /\ insert_data = PyBool(TRUE)
    /\ check_result = PyBool(FALSE)
    /\ txn = "open"

NextLoad == InsertData \/ Report

SpecLoad == InitLoad /\ [][NextLoad]_vars

\* first_db_request on every database within the bounds
InitQuery ==
    /\ InitCommon
    /\ databases = {"postgres", "shop"}
    /\ fresh = FALSE
    /\ tables = Expected
    /\ csv = [t \in Expected |-> Missing]
    /\ \E U \in SUBSET (1..MaxUsers) : \E C \in SUBSET (1..MaxCarts) :
         \E own \in [C -> U] : \E n \in 0..MaxLinks :
           \E links \in [1..n -> C \X (1..MaxProducts)] :
             rows = BuildDb(U, C, own, links)
    /\ pc = "report"
    /\ argv = ArgvDirect
    /\ db_name = "shop"
    /\ insert_data = PyBool(FALSE)
    /\ check_result = PyBool(FALSE)
    /\ txn = "open"

NextQuery == Report

SpecQuery == InitQuery /\ [][NextQuery]_vars

\* no command line reaches the loading loop or create_tables
NeverLoads == pc # "insert" /\ ~Truthy(insert_data)
NeverCreates == pc # "create_tables" /\ ~ct.ran

----------------------------------------------------------------------------
(* The claims. *)

Ran(op) == \E i \in 1..Len(trace) : trace[i].op = op

RanBefore(op, others) ==
    \A j \in 1..Len(trace) :
        trace[j].op \in others => \E i \in 1..(j - 1) : trace[i].op = op

\* the tables insert_data_to_db was called with, in the order of the calls
RECURSIVE InsertCallsFrom(_)
InsertCallsFrom(i) ==
    IF i > Len(trace) THEN <<>>
    ELSE IF trace[i].op = "insert_data_to_db"
    THEN <<trace[i].arg>> \o InsertCallsFrom(i + 1)
    ELSE InsertCallsFrom(i + 1)

InsertCalls == InsertCallsFrom(1)

\* the calls whose failure is fatal
FatalOps == {"create_connection_to_POSTGRES", "check_if_exists_database",
             "check_if_exists_tables", "first_db_request"}

\* C1: once the table check has returned, create_tables runs exactly when the
\* check returned false: after a false check it runs before any load and before
\* the report, after a true check it does not run.
C1_CreateIffCheckFalse ==
    /\ check_result = PyBool(FALSE) =>
         RanBefore("create_tables", {"insert_data_to_db", "first_db_request"})
    /\ check_result = PyBool(TRUE) => ~Ran("create_tables")

\* C2: check_if_exists_tables returns true exactly when the tables of the public
\* schema are the six expected ones, no fewer and no more.
C2_CheckIsSetEquality ==
    check_result.py = "bool" =>
        (Truthy(check_result) <=> (tables \cup pending) = Expected)

\* C3: the exit status is zero when every step succeeded, and non-zero when a
\* connection attempt, an existence check or the report aborted the run.
C3_ExitCode ==
    pc = "exit" =>
        /\ (raised = NoError /\ \A i \in 1..Len(trace) : trace[i].ok) => exit_code = <<0>>
        /\ (raised.at \in FatalOps) => exit_code # <<0>>

\* C4: a failed load of one table is printed and does not stop the run: the next
\* call is the load of the next table, or the report after the last one.
C4_LoadFailureContinues ==
    \A i \in 1..Len(trace) :
        (trace[i].op = "insert_data_to_db" /\ ~trace[i].ok) =>
            LET k == TableIndex(trace[i].arg)
                last == k = Len(db_tables)
            IN /\ raised.at # "insert_data_to_db"
               /\ "insert_data_to_db" \in Range(log)
               /\ i = Len(trace) => pc = IF last THEN "report" ELSE "insert"
               /\ i < Len(trace) =>
                    IF last THEN trace[i + 1].op = "first_db_request"
                    ELSE /\ trace[i + 1].op = "insert_data_to_db"
                         /\ trace[i + 1].arg = db_tables[k + 1]

\* the command line asks for seeding and gives the required options
SeedRequested ==
    /\ argv.db_name # <<>>
    /\ argv.db_password # <<>>
    /\ argv.insert_data \in {<<"true">>, <<"True">>}

\* C5: with seeding requested the options parse and every table is loaded once,
\* in the order of db_tables; with the option omitted nothing is loaded.
C5_InsertDataOption ==
    /\ (SeedRequested /\ pc # "parse") =>
         /\ raised.at # "parse_args"
         /\ (pc = "exit" /\ raised = NoError) => InsertCalls = db_tables
    /\ argv.insert_data = <<>> => InsertCalls = <<>>

\* C6: every statement create_tables issues comes after the statements of the
\* tables its foreign keys reference, so the engine never refuses one for a
\* missing parent.
C6_ForeignKeyOrder ==
    ct.ran =>
        /\ \A i \in 1..Len(ct.issued) :
             Refs(SchemaOf(ct.issued[i])) \subseteq {ct.issued[j] : j \in 1..(i - 1)}
        /\ ct.cause # "missing_parent"

\* create_tables ran on an empty database and issued all six statements
C6_Witness ==
    /\ ct.ran
    /\ ct.start = {}
    /\ ct.failed = 0
    /\ Len(ct.issued) = Len(db_tables)
    /\ tables = Expected

\* the run is the end-to-end scenario: a fresh server, --db_name=shop
\* --insert_data=true, six populated well-formed files, a server that answers
EndToEndRun ==
    /\ fresh
    /\ argv = [db_name |-> <<"shop">>, db_password |-> <<"secret">>,
               insert_data |-> <<"true">>]
    /\ \A t \in Expected :
         /\ csv[t].exists
         /\ csv[t].lines # <<>>
         /\ \A i \in 1..Len(csv[t].lines) : csv[t].lines[i].ok
    /\ \A i \in 1..Len(trace) :
         trace[i].op \in (FatalOps \cup {"create_database"}) \ {"first_db_request"}
            => trace[i].ok

\* C7: the end-to-end run ends successfully with the database, the six tables
\* holding the rows of their files, and one report row per user with a count >= 0.
C7_EndToEnd ==
    (EndToEndRun /\ pc = "exit") =>
        /\ exit_code = <<0>>
        /\ raised = NoError
        /\ "shop" \in databases
        /\ Expected \subseteq tables
        /\ \A t \in Expected : Len(rows[t]) = Len(csv[t].lines)
        /\ report.ran
        /\ Len(report.data) = Len(rows["users"])
        /\ \A i \in 1..Len(report.data) : report.data[i].count \in Nat

\* the cart_product rows whose cart belongs to user u
LinksOfUser(db, u) ==
    {j \in 1..Len(db["cart_product"]) :
        \E k \in 1..Len(db["carts"]) :
            /\ db["carts"][k].cart_id = db["cart_product"][j].Carts_cart_id
            /\ db["carts"][k].Users_user_id = u.user_id}

\* C8: the report has one row per users row, and its count is the number of
\* cart_product rows whose cart is owned by that user.
C8_CountPerUser ==
    report.ran =>
        /\ Len(report.data) = Len(rows["users"])
        /\ \A i \in 1..Len(report.data) :
             report.data[i].count = Cardinality(LinksOfUser(rows, rows["users"][i]))

\* C9: when the k-th statement of create_tables fails the error is printed, no
\* later statement is issued, nothing is committed and create_tables returns to
\* main(), which goes on to load or report; a commit means all six succeeded.
C9_CreateFailurePolicy ==
    ct.ran =>
        /\ ct.failed # 0 =>
             /\ ct.logged
             /\ "create_tables" \in Range(log)
             /\ ct.issued = SubSeq(db_tables, 1, ct.failed)
             /\ ~ct.committed
             /\ tables = ct.start
        /\ ct.committed => (ct.failed = 0 /\ ct.issued = db_tables)
        /\ ~ct.raises
        /\ raised.at # "create_tables"
        /\ trace[Len(trace)].op = "create_tables" => pc \in {"insert", "report"}

\* the third statement failed and the run went on to a later call
C9_Witness ==
    /\ ct.ran
    /\ ct.failed = 3
    /\ ct.issued = <<"users", "categories", "carts">>
    /\ ~ct.committed
    /\ trace[Len(trace)].op \in {"insert_data_to_db", "first_db_request"}

\* the place of a call in the sequence of main()
StepRank(e) ==
    CASE e.op = "parse_args" -> 0
      [] e.op = "create_connection_to_POSTGRES" /\ e.arg = "" -> 1
      [] e.op = "check_if_exists_database" -> 2
      [] e.op = "create_database" -> 3
      [] e.op = "create_connection_to_POSTGRES" /\ e.arg # "" -> 4
      [] e.op = "check_if_exists_tables" -> 5
      [] e.op = "create_tables" -> 6
      [] e.op = "insert_data_to_db" -> 6 + TableIndex(e.arg)
      [] e.op = "first_db_request" -> 13

====
